---- MODULE Spec2Model ----
(***************************************************************************)
(* Model of src/app.js (gap-scan-web): the reconciliation of an MB51       *)
(* movement log with an MB5B stock snapshot.                               *)
(*                                                                         *)
(* Text is modelled as a sequence of atoms.  An atom is one character      *)
(* ("7", " ", "|", ".") or one indivisible literal of the export format    *)
(* ("Plant", "Material", "Loca", ...).  Quantities and timestamps are      *)
(* integers; NaN and null are the atoms named below.                       *)
(***************************************************************************)
EXTENDS Integers, Sequences, FiniteSets, TLC

VARIABLES
    \* Identity Normalizer / makeKey: raw cells, pad widths, the key made
    cells, pads, key, kpc,
    \* expectationAndReason: its row, tolerance and result
    row, tol, expRes,
    \* the synchronous pipeline: the decoded documents, the configuration
    \* (pad widths, tolerance, wall clock) and what each component returned
    docLog, docGrid, cfg, cleaned, facts, parsed, joined,
    \* the page: the selected files, the published result state, the Export
    \* button, the invocations of runAnalysis, how the run that ended last
    \* ended (with the message it left on the status line), what exportExcel
    \* wrote last
    mb51File, mb5bFile, resultRows, tableData, keyOptions, exportDisabled,
    runs, ended, exported

keyVars == <<cells, pads, key, kpc>>
classVars == <<row, tol, expRes>>
pipeVars == <<docLog, docGrid, cfg, cleaned, facts, parsed, joined>>
pageVars == <<mb51File, mb5bFile, resultRows, tableData, keyOptions, exportDisabled,
              runs, ended, exported>>
vars == <<cells, pads, key, kpc, row, tol, expRes,
          docLog, docGrid, cfg, cleaned, facts, parsed, joined,
          mb51File, mb5bFile, resultRows, tableData, keyOptions, exportDisabled,
          runs, ended, exported>>

----------------------------------------------------------------------------
(* Bounds of the model *)

\* longest raw identifier cell drawn over CellChars
MaxCellLen == 2
\* the non-zero zero-pad width offered by the configuration inputs
PadWidth == 2
\* most data rows of a movement log drawn for the schema check
MaxSchemaRows == 1
\* most rows of a movement log drawn for the replay
MaxLogRows == 3
\* most blocks of a snapshot document
MaxBlocks == 3
\* invocations of runAnalysis in one behaviour of the page
MaxRuns == 2
\* rows under the Loca/MvT header of a block
MaxDetailRows == 3

----------------------------------------------------------------------------
(* Text *)

Digits == {"0", "1", "2", "3", "4", "5", "6", "7", "8", "9"}

(* JavaScript values of a decoded cell *)
Str(s) == [kind |-> "string", s |-> s]
Num(n) == [kind |-> "number", n |-> n]
DateV(t) == [kind |-> "Date", time |-> t]
UndefinedV == [kind |-> "undefined"]

DigitOf(d) == CASE d = 0 -> "0" [] d = 1 -> "1" [] d = 2 -> "2" [] d = 3 -> "3"
                [] d = 4 -> "4" [] d = 5 -> "5" [] d = 6 -> "6" [] d = 7 -> "7"
                [] d = 8 -> "8" [] OTHER -> "9"

\* the decimal digits of n >= 0
RECURSIVE Decimal(_)
Decimal(n) == IF n < 10 THEN <<DigitOf(n)>> ELSE Append(Decimal(n \div 10), DigitOf(n % 10))

\* String(x)
String(x) ==
    CASE x.kind = "string" -> x.s
      [] x.kind = "number" -> IF x.n < 0 THEN <<"-">> \o Decimal(-x.n) ELSE Decimal(x.n)
      [] x.kind = "undefined" -> <<"undefined">>
      [] OTHER -> <<"[object]">>

RECURSIVE TrimLeft(_)
TrimLeft(s) == IF s # <<>> /\ Head(s) = " " THEN TrimLeft(Tail(s)) ELSE s

RECURSIVE TrimRight(_)
TrimRight(s) ==
    IF s # <<>> /\ s[Len(s)] = " " THEN TrimRight(SubSeq(s, 1, Len(s) - 1)) ELSE s

\* String.prototype.trim
Trim(s) == TrimRight(TrimLeft(s))

\* /^\d+$/.test(s)
AllDigits(s) == Len(s) >= 1 /\ \A i \in 1..Len(s) : s[i] \in Digits

\* /^\d+\.0$/.test(s)
IntDotZero(s) ==
    /\ Len(s) >= 3
    /\ s[Len(s)] = "0"
    /\ s[Len(s) - 1] = "."
    /\ AllDigits(SubSeq(s, 1, Len(s) - 2))

RECURSIVE Repeat(_, _)
Repeat(c, n) == IF n <= 0 THEN <<>> ELSE <<c>> \o Repeat(c, n - 1)

\* all texts of length <= n over the atoms of A
RECURSIVE Strs(_, _)
Strs(A, n) ==
    IF n = 0 THEN {<<>>}
    ELSE LET S == Strs(A, n - 1) IN S \cup {Append(s, c) : s \in S, c \in A}

----------------------------------------------------------------------------
(* Identity Normalizer *)

normIntish(x) ==
    IF x.kind = "undefined" THEN <<>>
    ELSE LET s == Trim(String(x))
             t == IF IntDotZero(s) THEN SubSeq(s, 1, Len(s) - 2) ELSE s
         IN Trim(t)

zfill(s, n) == IF Len(s) >= n THEN s ELSE Repeat("0", n - Len(s)) \o s

normMaterial(x, padTo) ==
    LET s == normIntish(x)
    IN IF padTo # 0 /\ AllDigits(s) THEN zfill(s, padTo) ELSE s

normSloc(x, padTo) ==
    LET s == normIntish(x)
    IN IF padTo # 0 /\ AllDigits(s) THEN zfill(s, padTo) ELSE s

makeKey(plant, material, sloc) == plant \o <<"|">> \o material \o <<"|">> \o sloc

----------------------------------------------------------------------------
(* Inputs of the Normalizer: raw identifier cells and pad widths *)

CellChars == {"7", "|", " "}

RawCells ==
    {Str(s) : s \in Strs(CellChars, MaxCellLen)}
        \cup {Str(<<"7", ".", "0">>), Num(7), UndefinedV}

PadChoices == {0, PadWidth}

\* plant, material and storage location as cleanMb51 normalizes them
NormTriple(c, p) ==
    <<normIntish(c[1]), normMaterial(c[2], p[1]), normSloc(c[3], p[2])>>

\* every triple the Normalizer can output over the inputs
NormTriples ==
    {NormTriple(c, p) : c \in RawCells \X RawCells \X RawCells,
                        p \in PadChoices \X PadChoices}

NoKey == <<"#none">>

InitKey ==
    /\ cells \in RawCells \X RawCells \X RawCells
    /\ pads \in PadChoices \X PadChoices
    /\ key = NoKey
    /\ kpc = "raw"

\* cleanMb51's per-row key derivation
KeyRow ==
    /\ kpc = "raw"
    /\ LET t == NormTriple(cells, pads)
       IN key' = makeKey(t[1], t[2], t[3])
    /\ kpc' = "keyed"
    /\ UNCHANGED <<cells, pads>>

----------------------------------------------------------------------------
(* Expectation Classifier *)

\* daysSince of an absent event
NaN == -999999

\* Days-since values are carried in seconds: d <= n (days) is WithinDays(d, n)
SecondsPerDay == 86400
WithinDays(d, n) == d <= n * SecondsPerDay

\* Number.isFinite(d) for a days-since value
IsFinite(d) == d # NaN

\* Math.abs
Abs(n) == IF n < 0 THEN -n ELSE n

Min(a, b) == IF a <= b THEN a ELSE b

\* thresholds of the rules
SmallDelta == 5
RecentDays == 14
StaleReceiptDays == 90
OldCountDays == 180

\* one rationale line: the rule that appended it and the number it prints
Line(rule, n) == [rule |-> rule, num |-> n]

NoStockLine == Line("SAP shows 0 on-hand (no stock expected).", 0)
MatchLine == Line("SAP SOH matches movement replay (consistent).", 0)
DiffersLine(delta) == Line("SAP SOH differs from movement replay by (mismatch).", delta)
RecentReceiptLine == Line("Recent receipt", 0)
NoReceiptLine == Line("No recent receipts", 0)
RecentSalesLine == Line("Recent sales", 0)
LossLine(loss) == Line("702 loss history", loss)
NoCountLine == Line("No 701/702 count event found", 0)
OldCountLine == Line("Last count is old", 0)

\* reasons.push(line)
Push(st, line) == [st EXCEPT !.reasons = Append(@, line)]

SetBase(st, b) == [st EXCEPT !.base = b]

\* rule 2: match / mismatch against the movement replay
RuleDelta(st, delta, t) ==
    IF Abs(delta) <= t
    THEN SetBase(Push(st, MatchLine), "HIGH")
    ELSE SetBase(Push(st, DiffersLine(delta)),
                 IF Abs(delta) <= SmallDelta THEN "MEDIUM" ELSE "LOW")

\* rule 3: recency of the last receipt
RuleReceipt(st, dRec) ==
    IF IsFinite(dRec) /\ WithinDays(dRec, RecentDays)
    THEN LET s == Push(st, RecentReceiptLine)
         IN IF s.base = "MEDIUM" THEN SetBase(s, "HIGH") ELSE s
    ELSE IF ~IsFinite(dRec) \/ ~WithinDays(dRec, StaleReceiptDays)
    THEN LET s == Push(st, NoReceiptLine)
         IN IF s.base = "HIGH" THEN SetBase(s, "MEDIUM") ELSE s
    ELSE st

\* rule 4: recent sales (no tier change)
RuleSale(st, dSale) ==
    IF IsFinite(dSale) /\ WithinDays(dSale, RecentDays) THEN Push(st, RecentSalesLine) ELSE st

\* rule 5: 702 loss history
RuleLoss(st, loss702) ==
    IF loss702 < 0
    THEN LET s == Push(st, LossLine(loss702))
         IN IF s.base = "HIGH" THEN SetBase(s, "MEDIUM")
            ELSE IF s.base = "MEDIUM" THEN SetBase(s, "LOW")
            ELSE s
    ELSE st

\* a count rule that also lowers a MEDIUM tier
RuleCountLowers(st, dCount) ==
    IF ~IsFinite(dCount) \/ ~WithinDays(dCount, OldCountDays)
    THEN LET s == Push(st, IF ~IsFinite(dCount) THEN NoCountLine ELSE OldCountLine)
         IN IF s.base = "HIGH" THEN SetBase(s, "MEDIUM")
            ELSE IF s.base = "MEDIUM" THEN SetBase(s, "LOW")
            ELSE s
    ELSE st

\* rule 6: count events
RuleCount(st, dCount) ==
    IF ~IsFinite(dCount)
    THEN LET s == Push(st, NoCountLine)
         IN IF s.base = "HIGH" THEN SetBase(s, "MEDIUM") ELSE s
    ELSE IF ~WithinDays(dCount, OldCountDays)
    THEN LET s == Push(st, OldCountLine)
         IN IF s.base = "HIGH" THEN SetBase(s, "MEDIUM") ELSE s
    ELSE st

\* the rules 2-6 in the order the code applies them
ApplyRules(r, t) ==
    LET s1 == [base |-> "MEDIUM", reasons |-> <<>>]
        s2 == RuleDelta(s1, r.Delta_SAP_minus_Expected, t)
        s3 == RuleReceipt(s2, r.Days_Since_LastReceipt)
        s4 == RuleSale(s3, r.Days_Since_LastSale)
        s5 == RuleLoss(s4, r.Loss702_Sum)
    IN RuleCount(s5, r.Days_Since_LastCount)

\* the values of base for row r: the provisional tier, then the tier after
\* each of the rules 2, 3, 4, 5 and 6
TierTrace(r, t) ==
    LET s1 == [base |-> "MEDIUM", reasons |-> <<>>]
        s2 == RuleDelta(s1, r.Delta_SAP_minus_Expected, t)
        s3 == RuleReceipt(s2, r.Days_Since_LastReceipt)
        s4 == RuleSale(s3, r.Days_Since_LastSale)
        s5 == RuleLoss(s4, r.Loss702_Sum)
        s6 == RuleCount(s5, r.Days_Since_LastCount)
    IN <<s1.base, s2.base, s3.base, s4.base, s5.base, s6.base>>

\* a slice that keeps two lines instead of three
SliceJoinTwo(reasons) == SubSeq(reasons, 1, Min(2, Len(reasons)))

\* reasons.slice(0,3).join(" ")
SliceJoin(reasons) == SubSeq(reasons, 1, Min(3, Len(reasons)))

\* a classifier without the no-stock guard of rule 1
expectationAndReasonNoGuard(r, t) ==
    LET s == ApplyRules(r, t)
    IN [Expectation |-> s.base, Summary |-> SliceJoin(s.reasons)]

\* the classifier: rule 1 short-circuits, rules 2-6 adjust tier and rationale
expectationAndReason(r, t) ==
    IF r.SAP_SOH_MB5B <= 0
    THEN [Expectation |-> "N/A", Summary |-> <<NoStockLine>>]
    ELSE LET s == ApplyRules(r, t)
         IN [Expectation |-> s.base, Summary |-> SliceJoin(s.reasons)]

----------------------------------------------------------------------------
(* Inputs of the classifier *)

\* largest reported quantity drawn
MaxQty == 2

\* a days-since value of n days, and one second more
Around(n) == {n * SecondsPerDay, n * SecondsPerDay + 1}

ClassRows ==
    [SAP_SOH_MB5B : -1..MaxQty,
     Expected_SOH_MB51 : {0, 1},
     Delta_SAP_minus_Expected : {-(SmallDelta + 1), -SmallDelta, -1, 0, 1,
                                 SmallDelta, SmallDelta + 1},
     Days_Since_LastCount : {NaN} \cup Around(OldCountDays),
     Days_Since_LastReceipt : {NaN} \cup Around(RecentDays) \cup Around(StaleReceiptDays),
     Days_Since_LastSale : {NaN} \cup Around(RecentDays),
     Loss702_Sum : {-1, 0, 1}]

Tolerances == {0, 1, SmallDelta + 1}

NoRes == [Expectation |-> "", Summary |-> <<>>]

InitClass ==
    /\ row \in ClassRows
    /\ tol \in Tolerances
    /\ expRes = NoRes

Classify ==
    /\ expRes = NoRes
    /\ expRes' = expectationAndReason(row, tol)
    /\ UNCHANGED <<row, tol>>

----------------------------------------------------------------------------
(* Cell parsing of the Transaction Cleaner.  Time is counted in seconds. *)

\* the 1900-system serial of 1970-01-01
ExcelEpochSerial == 25569

\* a null date / null Post DateTime
NullDate == -888888

\* UTF-16 code of a character atom, for the < and > of strings
CharCode(c) ==
    CASE c = " " -> 32 [] c = "-" -> 45 [] c = "." -> 46
      [] c = "0" -> 48 [] c = "1" -> 49 [] c = "2" -> 50 [] c = "3" -> 51
      [] c = "4" -> 52 [] c = "5" -> 53 [] c = "6" -> 54 [] c = "7" -> 55
      [] c = "8" -> 56 [] c = "9" -> 57 [] c = ":" -> 58 [] c = "|" -> 124
      [] OTHER -> 65

\* a < b on strings
RECURSIVE LexLess(_, _)
LexLess(a, b) ==
    IF b = <<>> THEN FALSE
    ELSE IF a = <<>> THEN TRUE
    ELSE IF CharCode(Head(a)) # CharCode(Head(b)) THEN CharCode(Head(a)) < CharCode(Head(b))
    ELSE LexLess(Tail(a), Tail(b))

DigitVal(c) == CharCode(c) - 48

\* Number(s) of a digit string
RECURSIVE ToInt(_)
ToInt(s) == IF s = <<>> THEN 0 ELSE 10 * ToInt(SubSeq(s, 1, Len(s) - 1)) + DigitVal(s[Len(s)])

\* s.replace(/,/g, "")
StripCommas(s) == SelectSeq(s, LAMBDA c : c # ",")

\* Number.isFinite(Number(text)) ? Number(text) : 0 for integer literals
NumberOrZero(s) ==
    IF s = <<>> THEN 0
    ELSE IF AllDigits(s) THEN ToInt(s)
    ELSE IF Head(s) \in {"-", "+"} /\ AllDigits(Tail(s))
    THEN (IF Head(s) = "-" THEN -ToInt(Tail(s)) ELSE ToInt(Tail(s)))
    ELSE 0

safeNumber(x) ==
    IF x.kind = "number" THEN x.n
    ELSE NumberOrZero(Trim(StripCommas(String(x))))

excelSerialToDate(n) == (n - ExcelEpochSerial) * SecondsPerDay

\* new Date(s).getTime() of the date literals of the inputs; NullDate when
\* the text does not parse
DateParse(s) ==
    CASE s = <<"1970-01-01">> -> 0
      [] s = <<"1970-01-02">> -> SecondsPerDay
      [] OTHER -> NullDate

parseDateCell(v) ==
    CASE v.kind = "undefined" -> NullDate
      [] v.kind = "Date" -> v.time
      [] v.kind = "number" -> excelSerialToDate(v.n)
      [] v.kind = "string" -> IF v.s = <<>> THEN NullDate ELSE DateParse(Trim(v.s))
      [] OTHER -> NullDate

\* /^(\d{1,2}):(\d{2})(?::(\d{2}))?$/ : the seconds since midnight, or -1
HmsMatch(s) ==
    LET colon == IF Len(s) >= 2 /\ s[2] = ":" THEN 2
                 ELSE IF Len(s) >= 3 /\ s[3] = ":" THEN 3 ELSE 0
        hh == SubSeq(s, 1, colon - 1)
        rest == SubSeq(s, colon + 1, Len(s))
        mm == SubSeq(rest, 1, 2)
        ss == SubSeq(rest, 4, 5)
    IN IF colon = 0 \/ ~AllDigits(hh) THEN -1
       ELSE IF Len(rest) = 2 /\ AllDigits(mm)
       THEN ToInt(hh) * 3600 + ToInt(mm) * 60
       ELSE IF Len(rest) = 5 /\ AllDigits(mm) /\ rest[3] = ":" /\ AllDigits(ss)
       THEN ToInt(hh) * 3600 + ToInt(mm) * 60 + ToInt(ss)
       ELSE -1

\* the time of entry since midnight (the texts drawn here that miss the
\* HH:MM[:SS] pattern are no ISO time either, so the fallback yields 0)
parseTimeToMs(v) ==
    CASE v.kind = "undefined" -> 0
      [] v.kind = "number" -> v.n * SecondsPerDay
      [] v.kind = "string" ->
            IF v.s = <<>> THEN 0
            ELSE LET m == HmsMatch(Trim(v.s)) IN IF m >= 0 THEN m ELSE 0
      [] OTHER -> 0

----------------------------------------------------------------------------
(* Transaction Cleaner *)

T_Plant == <<"Plant">>
T_Material == <<"Material">>
T_MaterialDescription == <<"Material", " ", "Description">>
T_StorageLocation == <<"Storage", " ", "Location">>
T_MovementType == <<"Movement", " ", "Type">>
T_MovementTypeText == <<"Movement", " ", "Type", " ", "Text">>
T_PostingDate == <<"Posting", " ", "Date">>
T_TimeOfEntry == <<"Time", " ", "of", " ", "Entry">>
T_Qty == <<"Qty", " ", "in", " ", "unit", " ", "of", " ", "entry">>

MB51_REQUIRED ==
    <<T_Plant, T_Material, T_MaterialDescription, T_StorageLocation,
      T_MovementType, T_MovementTypeText, T_PostingDate, T_TimeOfEntry, T_Qty>>

SALES_MVTS == {<<"2", "5", "1">>, <<"6", "0", "1">>}
RECEIPT_MVTS == {<<"1", "0", "1">>}
COUNT_MVTS == {<<"7", "0", "1">>, <<"7", "0", "2">>}
MVT_702 == <<"7", "0", "2">>

\* r[name]
Get(r, name) == IF name \in DOMAIN r THEN r[name] ELSE UndefinedV

\* a header check that reports only the first missing column
MissingFirstOnly(rows) ==
    LET cols == IF rows = <<>> THEN {} ELSE {Trim(c) : c \in DOMAIN rows[1]}
        miss == SelectSeq(MB51_REQUIRED, LAMBDA c : c \notin cols)
    IN SubSeq(miss, 1, Min(1, Len(miss)))

\* the header check of cleanMb51: the required columns not among the
\* trimmed keys of the first row
MissingColumns(rows) ==
    LET cols == IF rows = <<>> THEN {} ELSE {Trim(c) : c \in DOMAIN rows[1]}
    IN SelectSeq(MB51_REQUIRED, LAMBDA c : c \notin cols)

\* the record cleanMb51 makes of one row
CleanRow(r, matPad, slocPad) ==
    LET plant == normIntish(Get(r, T_Plant))
        material == normMaterial(Get(r, T_Material), matPad)
        sloc == normSloc(Get(r, T_StorageLocation), slocPad)
        postDate == parseDateCell(Get(r, T_PostingDate))
        timeMs == parseTimeToMs(Get(r, T_TimeOfEntry))
        md == Get(r, T_MaterialDescription)
    IN [Plant |-> plant,
        Material |-> material,
        Material_Description |-> IF md.kind = "undefined" THEN <<>> ELSE Trim(String(md)),
        Storage_Location |-> sloc,
        Movement_Type |-> Trim(String(Get(r, T_MovementType))),
        Movement_Type_Text |-> Trim(String(Get(r, T_MovementTypeText))),
        Posting_Date |-> postDate,
        Post_DateTime |-> IF postDate # NullDate THEN postDate + timeMs ELSE NullDate,
        Qty |-> safeNumber(Get(r, T_Qty)),
        Key |-> makeKey(plant, material, sloc)]

\* a["Post DateTime"] ? a["Post DateTime"].getTime() : 0
TimeOrZero(r) == IF r.Post_DateTime # NullDate THEN r.Post_DateTime ELSE 0

\* the comparator of out.sort in cleanMb51
Mb51Compare(a, b) ==
    IF LexLess(a.Key, b.Key) THEN -1
    ELSE IF LexLess(b.Key, a.Key) THEN 1
    ELSE TimeOrZero(a) - TimeOrZero(b)

\* Array.prototype.sort with a consistent comparator: stable
StableSort(seq, Cmp(_, _)) ==
    LET n == Len(seq)
        before(i) == {j \in 1..n : \/ Cmp(seq[j], seq[i]) < 0
                                  \/ (Cmp(seq[j], seq[i]) = 0 /\ j < i)}
        at(k) == CHOOSE i \in 1..n : Cardinality(before(i)) = k - 1
    IN [k \in 1..n |-> seq[at(k)]]

\* rows.map(r => ...) of cleanMb51, from row i on
RECURSIVE CleanRows(_, _, _, _)
CleanRows(rows, i, matPad, slocPad) ==
    IF i > Len(rows) THEN <<>>
    ELSE <<CleanRow(rows[i], matPad, slocPad)>> \o CleanRows(rows, i + 1, matPad, slocPad)

cleanMb51(rows, matPad, slocPad) ==
    LET missing == MissingColumns(rows)
    IN IF missing # <<>>
       THEN [error |-> "MB51 missing columns", missing |-> missing, out |-> <<>>]
       ELSE [error |-> "", missing |-> <<>>,
             out |-> StableSort(CleanRows(rows, 1, matPad, slocPad), Mb51Compare)]

----------------------------------------------------------------------------
(* Movement Replay Engine *)

\* map.set(k, v) on a Map held as a function
MapSet(m, k, v) == [x \in DOMAIN m \cup {k} |-> IF x = k THEN v ELSE m[x]]

EmptyMap == [x \in {} |-> 0]

RECURSIVE SumScan(_, _, _)
SumScan(mb51, i, m) ==
    IF i > Len(mb51) THEN m
    ELSE LET r == mb51[i]
             cur == IF r.Key \in DOMAIN m THEN m[r.Key] ELSE 0
         IN SumScan(mb51, i + 1, MapSet(m, r.Key, cur + r.Qty))

computeExpectedSohMb51(mb51) == SumScan(mb51, 1, EmptyMap)

\* a scan that replaces on an equal timestamp: the last of the latest wins
RECURSIVE LastScanLatestWins(_, _, _, _)
LastScanLatestWins(mb51, mvts, i, last) ==
    IF i > Len(mb51) THEN last
    ELSE LET r == mb51[i]
         IN IF r.Movement_Type \notin mvts \/ r.Post_DateTime = NullDate
            THEN LastScanLatestWins(mb51, mvts, i + 1, last)
            ELSE IF r.Key \notin DOMAIN last
                    \/ last[r.Key].Post_DateTime <= r.Post_DateTime
            THEN LastScanLatestWins(mb51, mvts, i + 1, MapSet(last, r.Key, r))
            ELSE LastScanLatestWins(mb51, mvts, i + 1, last)

\* the scan of lastEvent: Key -> row
RECURSIVE LastScan(_, _, _, _)
LastScan(mb51, mvts, i, last) ==
    IF i > Len(mb51) THEN last
    ELSE LET r == mb51[i]
         IN IF r.Movement_Type \notin mvts \/ r.Post_DateTime = NullDate
            THEN LastScan(mb51, mvts, i + 1, last)
            ELSE IF r.Key \notin DOMAIN last
                    \/ last[r.Key].Post_DateTime < r.Post_DateTime
            THEN LastScan(mb51, mvts, i + 1, MapSet(last, r.Key, r))
            ELSE LastScan(mb51, mvts, i + 1, last)

lastEvent(mb51, mvts) ==
    LET last == LastScan(mb51, mvts, 1, EmptyMap)
    IN [k \in DOMAIN last |->
          [DT |-> last[k].Post_DateTime, Qty |-> last[k].Qty,
           MvT |-> last[k].Movement_Type, Txt |-> last[k].Movement_Type_Text]]

\* the 702 loop of runAnalysis
loss702Map(mb51) ==
    SumScan(SelectSeq(mb51, LAMBDA r : r.Movement_Type = MVT_702), 1, EmptyMap)

----------------------------------------------------------------------------
(* Snapshot Block Parser *)

UNITS == {"EA", "PC", "ST", "KG", "L"}
STOCK_PREFIX == "Stock on 31.12.9999"
MaxBlockLines == 140

\* a character of \w
IsWordAtom(c) == c \notin {" ", "-", ".", "|", ",", ":"}

\* row[i] of a grid row, JavaScript index i
Cell(r, i) == IF i + 1 <= Len(r) THEN r[i + 1] ELSE UndefinedV

\* the index of the first atom at or after i that is no space (Len+1 if none)
RECURSIVE SkipSpaces(_, _)
SkipSpaces(s, i) == IF i <= Len(s) /\ s[i] = " " THEN SkipSpaces(s, i + 1) ELSE i

\* the index after the digit run that starts at i
RECURSIVE SkipDigits(_, _)
SkipDigits(s, i) == IF i <= Len(s) /\ s[i] \in Digits THEN SkipDigits(s, i + 1) ELSE i

\* line.match(/<word>\s+(\d+)/): the captured digits, or "" without a match
MatchWordDigits(line, word) ==
    LET hits == {i \in 1..Len(line) :
                    /\ line[i] = word
                    /\ SkipSpaces(line, i + 1) > i + 1
                    /\ SkipDigits(line, SkipSpaces(line, i + 1)) > SkipSpaces(line, i + 1)}
    IN IF hits = {} THEN <<>>
       ELSE LET i == CHOOSE h \in hits : \A g \in hits : h <= g
                j == SkipSpaces(line, i + 1)
            IN SubSeq(line, j, SkipDigits(line, j) - 1)

\* \b at position i of s (between s[i-1] and s[i])
Boundary(s, i) ==
    LET l == i - 1 >= 1 /\ IsWordAtom(s[i - 1])
        r == i <= Len(s) /\ IsWordAtom(s[i])
    IN l # r

\* tail.match(/([0-9]+(?:\.[0-9]+)?)\s*(-)?\s*(EA|PC|ST|KG|L|)\b/i) from the
\* first digit of the tail, for whole-number literals: <<found, number>>
QtyMatch(tail) ==
    LET starts == {i \in 1..Len(tail) : tail[i] \in Digits}
        i == CHOOSE h \in starts : \A g \in starts : h <= g
        e1 == SkipDigits(tail, i)
        e == IF e1 + 1 <= Len(tail) /\ tail[e1] = "." /\ tail[e1 + 1] \in Digits
             THEN SkipDigits(tail, e1 + 1) ELSE e1
        num == ToInt(SubSeq(tail, i, e1 - 1))
        a == SkipSpaces(tail, e)
        minus == a <= Len(tail) /\ tail[a] = "-"
        b == IF minus THEN SkipSpaces(tail, a + 1) ELSE a
        endWith(pos) == IF pos <= Len(tail) /\ tail[pos] \in UNITS THEN pos + 1 ELSE pos
        \* the greedy attempt, then the ones backtracking reaches
        okMinus == minus /\ (Boundary(tail, endWith(b)) \/ Boundary(tail, b)
                             \/ Boundary(tail, a + 1))
        okPlain == Boundary(tail, endWith(a)) \/ Boundary(tail, a)
                   \/ Boundary(tail, endWith(e)) \/ Boundary(tail, e)
    IN IF starts = {} THEN <<FALSE, 0>>
       ELSE IF okMinus THEN <<TRUE, -num>>
       ELSE IF okPlain THEN <<TRUE, num>>
       ELSE <<FALSE, 0>>

\* parseQtyLine(prefix, s): <<found, number>>
parseQtyLine(prefix, s) ==
    LET t == Trim(s)
    IN IF t = <<>> \/ Head(t) # prefix THEN <<FALSE, 0>>
       ELSE QtyMatch(Trim(Tail(t)))

\* the first element of seq that satisfies Test, or none
FirstSuch(seq, Test(_), none) ==
    LET hits == {i \in 1..Len(seq) : Test(seq[i])}
    IN IF hits = {} THEN none ELSE seq[CHOOSE h \in hits : \A g \in hits : h <= g]

\* the text after "Description" and spaces: line.match(/Description\s+(.*)$/)
DescOf(line) ==
    LET hits == {i \in 1..Len(line) :
                    line[i] = "Description" /\ i + 1 <= Len(line) /\ line[i + 1] = " "}
    IN IF hits = {} THEN <<>>
       ELSE LET i == CHOOSE h \in hits : \A g \in hits : h <= g
            IN Trim(SubSeq(line, i + 1, Len(line)))

\* a scan that starts at the row directly under the header row
SlocsOfFromNext(block, slocPad) ==
    LET hdrs == {r \in 1..Len(block) :
                    /\ Cell(block[r], 1).kind # "undefined"
                    /\ Cell(block[r], 2).kind # "undefined"
                    /\ Trim(String(Cell(block[r], 1))) = <<"Loca">>
                    /\ Trim(String(Cell(block[r], 2))) = <<"MvT">>}
    IN IF hdrs = {} THEN {}
       ELSE LET r == CHOOSE h \in hdrs : \A g \in hdrs : h <= g
            IN {normSloc(Cell(block[rr], 1), slocPad) :
                    rr \in {q \in (r + 1)..Len(block) :
                               /\ Cell(block[q], 1).kind # "undefined"
                               /\ Trim(String(Cell(block[q], 1))) # <<>>}}

\* the storage locations of the detail table under the Loca/MvT header row:
\* the scan starts two rows below the header
SlocsOf(block, slocPad) ==
    LET hdrs == {r \in 1..Len(block) :
                    /\ Cell(block[r], 1).kind # "undefined"
                    /\ Cell(block[r], 2).kind # "undefined"
                    /\ Trim(String(Cell(block[r], 1))) = <<"Loca">>
                    /\ Trim(String(Cell(block[r], 2))) = <<"MvT">>}
    IN IF hdrs = {} THEN {}
       ELSE LET r == CHOOSE h \in hdrs : \A g \in hdrs : h <= g
                isPlant(rr) == LET v0 == Cell(block[rr], 0)
                               IN /\ v0.kind = "string"
                                  /\ Trim(v0.s) # <<>>
                                  /\ Head(Trim(v0.s)) = "Plant"
                stops == {rr \in (r + 2)..Len(block) : isPlant(rr)}
                last == IF stops = {} THEN Len(block)
                        ELSE (CHOOSE h \in stops : \A g \in stops : h <= g) - 1
            IN {normSloc(Cell(block[rr], 1), slocPad) :
                    rr \in {q \in (r + 2)..last :
                               /\ Cell(block[q], 1).kind # "undefined"
                               /\ Trim(String(Cell(block[q], 1))) # <<>>}}

\* the Snapshot Record of one block
ParseBlock(block, matPad, slocPad) ==
    LET raw0 == [i \in 1..Len(block) |->
                    IF Cell(block[i], 0).kind = "undefined" THEN <<>>
                    ELSE String(Cell(block[i], 0))]
        lines0 == SelectSeq(raw0, LAMBDA x : Trim(x) # <<>>)
        scanned == SubSeq(lines0, 1, Min(Len(lines0), MaxBlockLines))
        plant == MatchWordDigits(lines0[1], "Plant")
        matLine == FirstSuch(scanned, LAMBDA l : MatchWordDigits(l, "Material") # <<>>, <<>>)
        material == MatchWordDigits(matLine, "Material")
        descLine == FirstSuch(scanned,
                        LAMBDA l : /\ Head(Trim(l)) = "Description"
                                   /\ DescOf(l) # <<>>, <<>>)
        desc == DescOf(descLine)
        qtyLine == FirstSuch(scanned, LAMBDA l : parseQtyLine(STOCK_PREFIX, l)[1], <<>>)
        closeQty == parseQtyLine(STOCK_PREFIX, qtyLine)
        slocs == SlocsOf(block, slocPad)
        sloc == IF Cardinality(slocs) = 1 THEN CHOOSE x \in slocs : TRUE
                ELSE IF Cardinality(slocs) > 1 THEN <<"MULTI">>
                ELSE <<>>
        plantN == normIntish(Str(plant))
        matN == normMaterial(Str(material), matPad)
        slocN == IF sloc = <<"MULTI">> THEN <<"MULTI">> ELSE normSloc(Str(sloc), slocPad)
    IN [Plant |-> plantN,
        Material |-> matN,
        Storage_Location |-> slocN,
        Material_Description |-> desc,
        SAP_SOH_MB5B |-> IF closeQty[1] THEN closeQty[2] ELSE 0,
        Key |-> makeKey(plantN, matN, slocN)]

\* the trimmed first column of the grid
Col0(rows2d) ==
    [i \in 1..Len(rows2d) |->
        IF Cell(rows2d[i], 0).kind = "undefined" THEN <<>>
        ELSE Trim(String(Cell(rows2d[i], 0)))]

\* the indices of the rows that start a block, ascending
PlantRows(rows2d) ==
    LET c == Col0(rows2d)
    IN {i \in 1..Len(rows2d) : c[i] # <<>> /\ Head(c[i]) = "Plant"}

\* the k-th smallest element of a set of numbers
Nth(S, k) == CHOOSE x \in S : Cardinality({y \in S : y < x}) = k - 1

\* the records of all blocks, in block order, before deduplication
AllBlocks(rows2d, matPad, slocPad) ==
    LET P == PlantRows(rows2d)
        n == Cardinality(P)
    IN [bi \in 1..n |->
          LET start == Nth(P, bi)
              end == IF bi + 1 <= n THEN Nth(P, bi + 1) - 1 ELSE Len(rows2d)
          IN ParseBlock(SubSeq(rows2d, start, end), matPad, slocPad)]

\* a deduplication that keeps the last block of a key
RECURSIVE DedupKeepLast(_, _, _)
DedupKeepLast(blocks, i, out) ==
    IF i > Len(blocks) THEN out
    ELSE DedupKeepLast(blocks, i + 1,
            Append(SelectSeq(out, LAMBDA b : b.Key # blocks[i].Key), blocks[i]))

DropDuplicatesKeepLast(blocks) == DedupKeepLast(blocks, 1, <<>>)

\* drop duplicates by Key: the first block of a key is kept
RECURSIVE Dedup(_, _, _, _)
Dedup(blocks, i, seen, out) ==
    IF i > Len(blocks) THEN out
    ELSE IF blocks[i].Key \in seen THEN Dedup(blocks, i + 1, seen, out)
    ELSE Dedup(blocks, i + 1, seen \cup {blocks[i].Key}, Append(out, blocks[i]))

DropDuplicates(blocks) == Dedup(blocks, 1, {}, <<>>)

parseMb5bBlocks(rows2d, matPad, slocPad) ==
    IF PlantRows(rows2d) = {}
    THEN [error |-> "MB5B format not recognized", out |-> <<>>]
    ELSE [error |-> "", out |-> DropDuplicates(AllBlocks(rows2d, matPad, slocPad))]

----------------------------------------------------------------------------
(* Reconciliation Orchestrator: the synchronous pass of runAnalysis *)

\* daysSince(dt) at wall-clock time now
daysSince(dt, now) == IF dt = NullDate THEN NaN ELSE now - dt

NoEvent == [DT |-> NullDate, Qty |-> 0, MvT |-> <<>>, Txt |-> <<>>]

MapGet(m, k, default) == IF k \in DOMAIN m THEN m[k] ELSE default

\* the Reconciled Row of one Snapshot Record
JoinRow(b, expectedMap, lastCnt, lastSale, lastRec, lossMap, t, now) ==
    LET expected == MapGet(expectedMap, b.Key, 0)
        delta == b.SAP_SOH_MB5B - expected
        cnt == MapGet(lastCnt, b.Key, NoEvent)
        sale == MapGet(lastSale, b.Key, NoEvent)
        rec == MapGet(lastRec, b.Key, NoEvent)
        base == [Plant |-> b.Plant,
                 Material |-> b.Material,
                 Storage_Location |-> b.Storage_Location,
                 Material_Description |-> b.Material_Description,
                 SAP_SOH_MB5B |-> b.SAP_SOH_MB5B,
                 Key |-> b.Key,
                 Expected_SOH_MB51 |-> expected,
                 Delta_SAP_minus_Expected |-> delta,
                 LastCount_DT |-> cnt.DT, LastCount_Qty |-> cnt.Qty,
                 LastSale_DT |-> sale.DT, LastSale_Qty |-> sale.Qty,
                 LastReceipt_DT |-> rec.DT, LastReceipt_Qty |-> rec.Qty,
                 Days_Since_LastCount |-> daysSince(cnt.DT, now),
                 Days_Since_LastSale |-> daysSince(sale.DT, now),
                 Days_Since_LastReceipt |-> daysSince(rec.DT, now),
                 Loss702_Sum |-> MapGet(lossMap, b.Key, 0)]
        expRes0 == expectationAndReason(base, t)
    IN [f \in DOMAIN base \cup {"Expectation", "Summary"} |->
          IF f = "Expectation" THEN expRes0.Expectation
          ELSE IF f = "Summary" THEN expRes0.Summary
          ELSE base[f]]

\* order[a.Expectation] ?? 9
TierRank(e) ==
    CASE e = "LOW" -> 0 [] e = "MEDIUM" -> 1 [] e = "HIGH" -> 2 [] e = "N/A" -> 3
      [] OTHER -> 9

\* a comparator without the tier criterion
RowCompareNoTier(a, b) ==
    LET ap == IF a.SAP_SOH_MB5B > 0 THEN 1 ELSE 0
        bp == IF b.SAP_SOH_MB5B > 0 THEN 1 ELSE 0
    IN IF ap # bp THEN bp - ap
       ELSE b.SAP_SOH_MB5B - a.SAP_SOH_MB5B

\* the comparator of rows.sort in runAnalysis
RowCompare(a, b) ==
    LET ap == IF a.SAP_SOH_MB5B > 0 THEN 1 ELSE 0
        bp == IF b.SAP_SOH_MB5B > 0 THEN 1 ELSE 0
        ar == TierRank(a.Expectation)
        br == TierRank(b.Expectation)
    IN IF ap # bp THEN bp - ap
       ELSE IF ar # br THEN ar - br
       ELSE b.SAP_SOH_MB5B - a.SAP_SOH_MB5B

\* an inner join: only the Snapshot Records whose key the log knows
JoinRowsMatchedOnly(mb51, mb5b, t, now) ==
    LET expectedMap == computeExpectedSohMb51(mb51)
        lastCnt == lastEvent(mb51, COUNT_MVTS)
        lastSale == lastEvent(mb51, SALES_MVTS)
        lastRec == lastEvent(mb51, RECEIPT_MVTS)
        lossMap == loss702Map(mb51)
        kept == SelectSeq(mb5b, LAMBDA b : b.Key \in DOMAIN expectedMap)
    IN [i \in 1..Len(kept) |->
          JoinRow(kept[i], expectedMap, lastCnt, lastSale, lastRec, lossMap, t, now)]

\* mb5b.map(...) of runAnalysis: one row per Snapshot Record, in record order
JoinRows(mb51, mb5b, t, now) ==
    LET expectedMap == computeExpectedSohMb51(mb51)
        lastCnt == lastEvent(mb51, COUNT_MVTS)
        lastSale == lastEvent(mb51, SALES_MVTS)
        lastRec == lastEvent(mb51, RECEIPT_MVTS)
        lossMap == loss702Map(mb51)
    IN [i \in 1..Len(mb5b) |->
          JoinRow(mb5b[i], expectedMap, lastCnt, lastSale, lastRec, lossMap, t, now)]

\* the sorted result set
Reconcile(mb51, mb5b, t, now) == StableSort(JoinRows(mb51, mb5b, t, now), RowCompare)

\* the overlap diagnostic
Overlap(mb51, mb5b) ==
    Cardinality({mb51[i].Key : i \in 1..Len(mb51)} \cap {mb5b[i].Key : i \in 1..Len(mb5b)})

----------------------------------------------------------------------------
(* The pipeline components as operations on the decoded documents *)

Pending == [error |-> "#pending", missing |-> <<>>, out |-> <<>>]
NoFacts == [done |-> FALSE, expected |-> EmptyMap, lastCnt |-> EmptyMap,
            lastSale |-> EmptyMap, lastRec |-> EmptyMap, loss |-> EmptyMap]
NoRows == [done |-> FALSE, rows |-> <<>>, overlap |-> 0]

PipeStart ==
    /\ cleaned = Pending
    /\ parsed = Pending
    /\ facts = NoFacts
    /\ joined = NoRows

\* cleanMb51 on the decoded movement log
CleanLog ==
    /\ cleaned = Pending
    /\ cleaned' = cleanMb51(docLog, cfg.matPad, cfg.slocPad)
    /\ UNCHANGED <<docLog, docGrid, cfg, facts, parsed, joined>>

\* parseMb5bBlocks on the decoded snapshot grid
ParseSnapshot ==
    /\ parsed = Pending
    /\ LET res == parseMb5bBlocks(docGrid, cfg.matPad, cfg.slocPad)
       IN parsed' = [error |-> res.error, missing |-> <<>>, out |-> res.out]
    /\ UNCHANGED <<docLog, docGrid, cfg, cleaned, facts, joined>>

\* the replay of the cleaned log: expected sums, last events, 702 losses
Replay ==
    /\ cleaned.error = ""
    /\ ~facts.done
    /\ facts' = [done |-> TRUE,
                 expected |-> computeExpectedSohMb51(cleaned.out),
                 lastCnt |-> lastEvent(cleaned.out, COUNT_MVTS),
                 lastSale |-> lastEvent(cleaned.out, SALES_MVTS),
                 lastRec |-> lastEvent(cleaned.out, RECEIPT_MVTS),
                 loss |-> loss702Map(cleaned.out)]
    /\ UNCHANGED <<docLog, docGrid, cfg, cleaned, parsed, joined>>

\* the join, classification and sort of runAnalysis
Join ==
    /\ cleaned.error = ""
    /\ parsed.error = ""
    /\ ~joined.done
    /\ joined' = [done |-> TRUE,
                rows |-> Reconcile(cleaned.out, parsed.out, cfg.tol, cfg.now),
                overlap |-> Overlap(cleaned.out, parsed.out)]
    /\ UNCHANGED <<docLog, docGrid, cfg, cleaned, facts, parsed>>

----------------------------------------------------------------------------
(* Input documents *)

\* the wall clock of the runs drawn: 200 days after the epoch
NowDays == 200
Now == NowDays * SecondsPerDay

DefaultCfg == [matPad |-> 0, slocPad |-> PadWidth, tol |-> 0, now |-> Now]

\* a header as the sheet spells it
Hdr(i, style) ==
    IF style = "padded" THEN <<" ">> \o MB51_REQUIRED[i] \o <<" ">> ELSE MB51_REQUIRED[i]

T_Batch == <<"Batch">>

\* a decoded log row: the columns of present, spelled in style, with the cells
\* of vals (one per required column), and a Batch column when extra
RawRow(present, style, extra, vals) ==
    [h \in {Hdr(i, style) : i \in present} \cup (IF extra THEN {T_Batch} ELSE {}) |->
        IF h = T_Batch THEN Str(<<>>)
        ELSE vals[CHOOSE i \in present : Hdr(i, style) = h]]

AllColumns == 1..Len(MB51_REQUIRED)

T_101 == <<"1", "0", "1">>
T_601 == <<"6", "0", "1">>
T_701 == <<"7", "0", "1">>
T_Noon == <<"1", "2", ":", "0", "0">>
T_OneMinute == <<"0", ":", "0", "1">>

GoodVals ==
    <<Num(1000), Str(<<"7">>), Str(<<"A">>), Str(<<"1">>), Num(101), Str(<<"GR">>),
      DateV(0), Str(T_Noon), Num(2)>>

OddVals ==
    <<Str(<<>>), Str(<<" ", "7", "|">>), Num(5), Str(<<"7", ".", "0">>), Str(<<>>),
      Str(<<>>), Str(<<"n/a">>), Str(<<"n/a">>), Str(<<"1", ",", "0", "0", "0">>)>>

SchemaVals == {GoodVals, OddVals}

\* logs with any subset of the required columns, exact or padded headers
InitSchema ==
    /\ \E present \in SUBSET AllColumns, style \in {"exact", "padded"},
          extra \in BOOLEAN, n \in 0..MaxSchemaRows :
          \E vs \in [1..n -> SchemaVals] :
             docLog = [i \in 1..n |-> RawRow(present, style, extra, vs[i])]
    /\ docGrid = <<>>
    /\ cfg = DefaultCfg
    /\ PipeStart

\* the posting date and time-of-entry cells of an event time
WhenCells(w) ==
    CASE w = "none" -> <<Str(<<>>), Str(T_Noon)>>
      [] w = "t0" -> <<DateV(0), Str(<<>>)>>
      [] w = "t1" -> <<Num(ExcelEpochSerial), Str(T_OneMinute)>>
      [] OTHER -> <<Str(<<"1970-01-02">>), Num(0)>>

\* material, movement type and event time of a log row
ReplayShapes ==
    ({"7"} \X {T_101, T_701, MVT_702} \X {"none", "t0", "t1"})
        \cup {<<"8", T_701, "t0">>, <<"6", MVT_702, "t1">>}

\* the i-th row of a log: its shape, and the quantity i
ShapeRow(sh, i) ==
    LET w == WhenCells(sh[3])
    IN RawRow(AllColumns, "exact", FALSE,
              <<Num(1000), Str(<<sh[1]>>), Str(<<"A">>), Str(<<"1">>), Str(sh[2]),
                Str(<<"txt">>), w[1], w[2], Num(i)>>)

\* logs of rows with quantities 1, 2, ... in log order
InitReplay ==
    /\ \E n \in 0..MaxLogRows :
          \E sh \in [1..n -> ReplayShapes] :
             docLog = [i \in 1..n |-> ShapeRow(sh[i], i)]
    /\ docGrid = <<>>
    /\ cfg = DefaultCfg
    /\ PipeStart

\* the first-column line of the closing stock: the number n, a minus sign
\* where negative, the unit where one is given
StockLine(n, unit) ==
    <<STOCK_PREFIX, " ">> \o Decimal(Abs(n)) \o <<".", "0">>
        \o (IF n < 0 THEN <<"-">> ELSE <<>>)
        \o (IF unit # "" THEN <<" ", unit>> ELSE <<>>)

\* the detail-table rows of a block for the storage locations locas
RECURSIVE LocaRows(_)
LocaRows(locas) ==
    IF locas = <<>> THEN <<>>
    ELSE <<<<Str(<<>>), Head(locas), Str(T_101)>>>> \o LocaRows(Tail(locas))

\* the grid rows of one block of the export
BlockRows(b) ==
    << <<Str(<<"Plant", " ", "1", "0", "0", "0">>)>>,
       <<Str(<<"Material", " ", b.mat>>)>>,
       <<Str(<<>>)>>,
       <<Str(<<"Description", " ", b.desc>>)>>,
       <<Str(StockLine(b.qty, b.unit)), Str(<<>>), Str(<<>>)>> >>
      \o (IF b.locas = <<>> THEN <<>>
          ELSE << <<Str(<<>>), Str(<<"Loca">>), Str(<<"MvT">>)>>,
                  <<Str(<<>>), Str(<<>>), Str(<<>>)>> >> \o LocaRows(b.locas))

RECURSIVE GridOf(_)
GridOf(blocks) == IF blocks = <<>> THEN <<>> ELSE BlockRows(Head(blocks)) \o GridOf(Tail(blocks))

Block(mat, desc, qty, unit, locas) ==
    [mat |-> mat, desc |-> desc, qty |-> qty, unit |-> unit, locas |-> locas]

\* blocks of two materials: one location, none, several
SnapshotShapes ==
    {Block(m, "A", 3, "EA", <<Str(<<"1">>)>>) : m \in {"7", "8"}}
        \cup {Block(m, "B", -4, "EA", <<Num(1)>>) : m \in {"7", "8"}}
        \cup {Block(m, "A", 5, "", <<Str(<<"1">>), Str(<<"2">>)>>) : m \in {"7", "8"}}
        \cup {Block(m, "B", 6, "KG", <<>>) : m \in {"7", "8"}}

\* a row before the first block, then up to MaxBlocks blocks
InitSnapshot ==
    /\ \E n \in 0..MaxBlocks :
          \E bs \in [1..n -> SnapshotShapes] :
             docGrid = << <<Str(<<"MB5B">>)>> >> \o GridOf(bs)
    /\ docLog = <<>>
    /\ cfg \in {[DefaultCfg EXCEPT !.matPad = p] : p \in PadChoices}
    /\ PipeStart

\* the rows a detail table can hold: no second cell, an empty or blank one,
\* the locations 1 and 2 as text, 1 as a number and as "1.0"
DetailRows ==
    { <<Str(<<>>)>> }
      \cup { <<Str(<<>>), c, Str(T_101)>> :
                c \in {Str(<<>>), Str(<<" ">>), Str(<<"1">>), Str(<<"2">>), Num(1),
                       Str(<<"1", ".", "0">>)} }

\* the header row of a detail table as the sheet spells it
HeaderRows(style) ==
    CASE style = "exact" -> << <<Str(<<>>), Str(<<"Loca">>), Str(<<"MvT">>)>> >>
      [] style = "padded" -> << <<Str(<<>>), Str(<<" ", "Loca">>), Str(<<"MvT", " ">>)>> >>
      [] OTHER -> <<>>

\* a block of material 7 with up to MaxDetailRows rows under its header (or
\* under none), followed by a block of material 8 with location 9
InitDetail ==
    /\ \E style \in {"exact", "padded", "none"}, n \in 0..MaxDetailRows :
          \E ds \in [1..n -> DetailRows] :
             docGrid = BlockRows(Block("7", "A", 3, "EA", <<>>)) \o HeaderRows(style) \o ds
                         \o BlockRows(Block("8", "A", 3, "EA", <<Str(<<"9">>)>>))
    /\ docLog = <<>>
    /\ cfg \in {[DefaultCfg EXCEPT !.slocPad = p] : p \in PadChoices}
    /\ PipeStart

\* a log row of material mat with movement type mvt at time t
LogRow(mat, mvt, t, qty) ==
    RawRow(AllColumns, "exact", FALSE,
           <<Num(1000), Str(<<mat>>), Str(<<"A">>), Str(<<"1">>), Str(mvt),
             Str(<<"txt">>), DateV(t), Str(<<>>), Num(qty)>>)

Recent == Now - SecondsPerDay
Old == Now - NowDays * SecondsPerDay

\* movement logs of the materials 6 (never in a snapshot), 7, 8 and 9
JoinLogs ==
    { << LogRow("7", T_101, Recent, 2), LogRow("7", T_701, Recent, 0) >>,
      << LogRow("8", MVT_702, Recent, -1), LogRow("6", T_101, Recent, 5) >>,
      << LogRow("7", T_101, Old, 2), LogRow("9", T_601, Recent, -1),
         LogRow("9", T_701, Old, 1) >> }

\* reported quantities of the snapshot blocks of the join
JoinQtys == {0, 2, 8}

\* the materials of the snapshot blocks of the join
JoinMaterials == {"7", "8", "9"}

\* documents already cleaned and parsed: snapshots of up to MaxBlocks blocks
\* of distinct materials
InitJoin ==
    /\ docLog \in JoinLogs
    /\ \E n \in 0..MaxBlocks :
          \E ms \in [1..n -> JoinMaterials], qs \in [1..n -> JoinQtys] :
             /\ \A i, j \in 1..n : i # j => ms[i] # ms[j]
             /\ docGrid = GridOf([i \in 1..n |->
                                    Block(ms[i], "A", qs[i], "EA", <<Str(<<"1">>)>>)])
    /\ cfg \in {[DefaultCfg EXCEPT !.tol = t] : t \in {0, 8}}
    /\ cleaned = cleanMb51(docLog, cfg.matPad, cfg.slocPad)
    /\ LET res == parseMb5bBlocks(docGrid, cfg.matPad, cfg.slocPad)
       IN parsed = [error |-> res.error, missing |-> <<>>, out |-> res.out]
    /\ facts = NoFacts
    /\ joined = NoRows

----------------------------------------------------------------------------
(* The page: file selection, runAnalysis as an async function, exportExcel *)

NoFile == "null"

\* the files the operator can pick for the movement log and for the snapshot
LogFiles == {"mb51.xlsx", "mb51_noplant.xlsx"}
SnapFiles == {"mb5b_a.xlsx", "mb5b_b.xlsx", "mb5b_flat.xlsx"}

\* the first sheet of a file decoded to rows of objects
readWorkbookAsObjects(file) ==
    IF file = "mb51.xlsx"
    THEN << LogRow("7", T_101, Recent, 2), LogRow("8", MVT_702, Recent, -1) >>
    ELSE << RawRow(AllColumns \ {1}, "exact", FALSE, GoodVals) >>

\* the first sheet of a file decoded to rows of arrays
readWorkbookAsArrays(file) ==
    CASE file = "mb5b_a.xlsx" -> GridOf(<<Block("7", "A", 2, "EA", <<Str(<<"1">>)>>)>>)
      [] file = "mb5b_b.xlsx" -> GridOf(<<Block("8", "A", 8, "EA", <<Str(<<"1">>)>>),
                                         Block("9", "A", 0, "EA", <<Str(<<"1">>)>>)>>)
      [] OTHER -> << <<Str(<<"MB5B">>), Str(<<"flat">>)>> >>

\* Date.prototype.toISOString, "T" replaced by a blank, cut to 19 characters
formatDate(d) ==
    IF d = NullDate THEN <<>>
    ELSE LET z == d \div SecondsPerDay + 719468
             era == z \div 146097
             doe == z - era * 146097
             yoe == (doe - doe \div 1460 + doe \div 36524 - doe \div 146096) \div 365
             doy == doe - (365 * yoe + yoe \div 4 - yoe \div 100)
             mp == (5 * doy + 2) \div 153
             dd == doy - (153 * mp + 2) \div 5 + 1
             mm == IF mp < 10 THEN mp + 3 ELSE mp - 9
             yy == yoe + era * 400 + (IF mm <= 2 THEN 1 ELSE 0)
             s == d % SecondsPerDay
         IN zfill(Decimal(yy), 4) \o <<"-">> \o zfill(Decimal(mm), 2) \o <<"-">>
              \o zfill(Decimal(dd), 2) \o <<" ">> \o zfill(Decimal(s \div 3600), 2)
              \o <<":">> \o zfill(Decimal((s % 3600) \div 60), 2)
              \o <<":">> \o zfill(Decimal(s % 60), 2)

\* the quantity of a last event as exportExcel writes it
ExportQty(dt, qty) == IF dt = NullDate THEN Str(<<>>) ELSE Num(qty)

\* the sheet rows exportExcel writes for the result set rs
ExportRows(rs) ==
    [i \in 1..Len(rs) |->
        [Plant |-> rs[i].Plant, Material |-> rs[i].Material,
         Storage_Location |-> rs[i].Storage_Location,
         Material_Description |-> rs[i].Material_Description,
         SAP_SOH_MB5B |-> rs[i].SAP_SOH_MB5B,
         Expected_SOH_MB51 |-> rs[i].Expected_SOH_MB51,
         Delta_SAP_minus_Expected |-> rs[i].Delta_SAP_minus_Expected,
         Expectation |-> rs[i].Expectation, Summary |-> rs[i].Summary,
         LastCount_DT |-> formatDate(rs[i].LastCount_DT),
         LastCount_Qty |-> ExportQty(rs[i].LastCount_DT, rs[i].LastCount_Qty),
         LastSale_DT |-> formatDate(rs[i].LastSale_DT),
         LastSale_Qty |-> ExportQty(rs[i].LastSale_DT, rs[i].LastSale_Qty),
         LastReceipt_DT |-> formatDate(rs[i].LastReceipt_DT),
         LastReceipt_Qty |-> ExportQty(rs[i].LastReceipt_DT, rs[i].LastReceipt_Qty),
         Loss702_Sum |-> rs[i].Loss702_Sum]]

\* the keys populateKeySelect offers for the result set rs
KeyOptions(rs) == [i \in 1..Len(rs) |-> rs[i].Key]

\* an invocation of runAnalysis that has not been made: pc is its position,
\* f51 and f5b the files it handed to the decoders, mb51 its cleaned log;
\* clicked records the snapshot file selected when Run was clicked
NoRun == [pc |-> "idle", f51 |-> NoFile, f5b |-> NoFile, mb51 |-> <<>>,
          clicked |-> NoFile]

NoEnd == [kind |-> "none", run |-> 0, rows |-> <<>>, msg |-> <<>>]

\* the page before any file is selected; Export is not yet enabled
IdlePage ==
    /\ mb51File = NoFile
    /\ mb5bFile = NoFile
    /\ resultRows = <<>>
    /\ tableData = <<>>
    /\ keyOptions = <<>>
    /\ exportDisabled = TRUE
    /\ runs = [r \in 1..MaxRuns |-> NoRun]
    /\ ended = NoEnd
    /\ exported = <<>>

\* the change handler of the movement-log file input
ChangeMb51(f) ==
    /\ mb51File' = f
    /\ UNCHANGED <<mb5bFile, resultRows, tableData, keyOptions, exportDisabled,
                   runs, ended, exported>>

\* the change handler of the snapshot file input
ChangeMb5b(f) ==
    /\ mb5bFile' = f
    /\ UNCHANGED <<mb51File, resultRows, tableData, keyOptions, exportDisabled,
                   runs, ended, exported>>

\* a click on Run: runAnalysis up to its first await
ClickRun ==
    IF mb51File = NoFile \/ mb5bFile = NoFile
    THEN UNCHANGED pageVars
    ELSE \E r \in 1..MaxRuns :
            /\ runs[r].pc = "idle"
            /\ \A q \in 1..(r - 1) : runs[q].pc # "idle"
            /\ exportDisabled' = TRUE
            /\ runs' = [runs EXCEPT ![r] =
                          [pc |-> "await51", f51 |-> mb51File, f5b |-> NoFile,
                           mb51 |-> <<>>, clicked |-> mb5bFile]]
            /\ UNCHANGED <<mb51File, mb5bFile, resultRows, tableData, keyOptions,
                           ended, exported>>

\* the catch block of runAnalysis for run r
Fail(r, msg) ==
    /\ runs' = [runs EXCEPT ![r].pc = "error"]
    /\ ended' = [kind |-> "error", run |-> r, rows |-> <<>>,
                 msg |-> <<"Error: ">> \o msg]
    /\ UNCHANGED <<mb51File, mb5bFile, resultRows, tableData, keyOptions,
                   exportDisabled, exported>>

RECURSIVE JoinComma(_)
JoinComma(names) ==
    IF names = <<>> THEN <<>>
    ELSE IF Len(names) = 1 THEN Head(names)
    ELSE Head(names) \o <<",", " ">> \o JoinComma(Tail(names))

\* run r resumes with the decoded movement log: it cleans the log, then hands
\* the snapshot file selected now to the decoder and awaits again
Resume51(r) ==
    /\ runs[r].pc = "await51"
    /\ \E res \in {cleanMb51(readWorkbookAsObjects(runs[r].f51), cfg.matPad, cfg.slocPad)} :
          IF res.error # ""
          THEN Fail(r, <<res.error, ":", " ">> \o JoinComma(res.missing))
          ELSE /\ runs' = [runs EXCEPT ![r].pc = "await5b", ![r].f5b = mb5bFile,
                                       ![r].mb51 = res.out]
               /\ UNCHANGED <<mb51File, mb5bFile, resultRows, tableData, keyOptions,
                              exportDisabled, ended, exported>>

\* run r resumes with the decoded snapshot (or the decoder's rejection): block
\* parsing, replay, join, sort and publication in one pass
Resume5b(r) ==
    /\ runs[r].pc = "await5b"
    /\ IF runs[r].f5b = NoFile
       THEN Fail(r, <<"TypeError">>)
       ELSE \E res \in {parseMb5bBlocks(readWorkbookAsArrays(runs[r].f5b),
                                         cfg.matPad, cfg.slocPad)} :
               IF res.error # ""
               THEN Fail(r, <<res.error>>)
               ELSE \E rows \in {Reconcile(runs[r].mb51, res.out, cfg.tol, cfg.now)} :
                    /\ resultRows' = rows
                    /\ tableData' = rows
                    /\ keyOptions' = KeyOptions(rows)
                    /\ exportDisabled' = (rows = <<>>)
                    /\ runs' = [runs EXCEPT ![r].pc = "ok"]
                    /\ ended' = [kind |-> "ok", run |-> r, rows |-> rows,
                                 msg |-> <<"Done. Keys matched between MB51 and MB5B: ">>
                                           \o Decimal(Overlap(runs[r].mb51, res.out))]
                    /\ UNCHANGED <<mb51File, mb5bFile, exported>>

\* a click on Export: exportExcel
ExportClick ==
    /\ ~exportDisabled
    /\ resultRows # <<>>
    /\ exported' = ExportRows(resultRows)
    /\ UNCHANGED <<mb51File, mb5bFile, resultRows, tableData, keyOptions,
                   exportDisabled, runs, ended>>

----------------------------------------------------------------------------
(* Specifications *)

IdleKey == cells = <<>> /\ pads = <<0, 0>> /\ key = NoKey /\ kpc = "idle"

IdleClass ==
    /\ row = [SAP_SOH_MB5B |-> 0, Expected_SOH_MB51 |-> 0, Delta_SAP_minus_Expected |-> 0,
              Days_Since_LastCount |-> NaN, Days_Since_LastReceipt |-> NaN,
              Days_Since_LastSale |-> NaN, Loss702_Sum |-> 0]
    /\ tol = 0
    /\ expRes = NoRes

IdlePipe == docLog = <<>> /\ docGrid = <<>> /\ cfg = DefaultCfg /\ PipeStart

\* makeKey over every raw identifier triple
NextKey == KeyRow /\ UNCHANGED <<classVars, pipeVars, pageVars>>
StartKey == InitKey /\ IdleClass /\ IdlePipe /\ IdlePage
SpecKey == StartKey /\ [][NextKey]_vars

\* expectationAndReason over every classifier input
NextClass == Classify /\ UNCHANGED <<keyVars, pipeVars, pageVars>>
StartClass == IdleKey /\ InitClass /\ IdlePipe /\ IdlePage
SpecClass == StartClass /\ [][NextClass]_vars

\* cleanMb51 and the replay over the decoded movement logs
NextLog == (CleanLog \/ Replay) /\ UNCHANGED <<keyVars, classVars, pageVars>>
StartSchema == IdleKey /\ IdleClass /\ InitSchema /\ IdlePage
SpecSchema == StartSchema /\ [][NextLog]_vars
StartReplay == IdleKey /\ IdleClass /\ InitReplay /\ IdlePage
SpecReplay == StartReplay /\ [][NextLog]_vars

\* parseMb5bBlocks over the decoded snapshot grids
NextSnapshot == ParseSnapshot /\ UNCHANGED <<keyVars, classVars, pageVars>>
StartSnapshot == IdleKey /\ IdleClass /\ InitSnapshot /\ IdlePage
SpecSnapshot == StartSnapshot /\ [][NextSnapshot]_vars

\* parseMb5bBlocks over the detail tables
StartDetail == IdleKey /\ IdleClass /\ InitDetail /\ IdlePage
SpecDetail == StartDetail /\ [][NextSnapshot]_vars

\* the join, classification and sort over cleaned and parsed documents
NextJoin == Join /\ UNCHANGED <<keyVars, classVars, pageVars>>
StartJoin == IdleKey /\ IdleClass /\ InitJoin /\ IdlePage
SpecJoin == StartJoin /\ [][NextJoin]_vars

\* the page: file selections, clicks and the resumptions of the runs in flight
NextRun ==
    /\ \/ \E f \in LogFiles \cup {NoFile} : ChangeMb51(f)
       \/ \E f \in SnapFiles \cup {NoFile} : ChangeMb5b(f)
       \/ ClickRun
       \/ \E r \in 1..MaxRuns : Resume51(r)
       \/ \E r \in 1..MaxRuns : Resume5b(r)
       \/ ExportClick
    /\ UNCHANGED <<keyVars, classVars, pipeVars>>
StartRun == IdleKey /\ IdleClass /\ IdlePipe /\ IdlePage
SpecRun == StartRun /\ [][NextRun]_vars

----------------------------------------------------------------------------
(* Claims about the classifier *)

Classified == expRes # NoRes

\* C1: a row whose reported quantity is <= 0 gets tier "N/A" with the fixed
\* 'no stock expected' rationale and nothing else, whatever the other inputs
\* are; a row whose reported quantity is > 0 never gets tier "N/A".
C1_NoStockIsNA ==
    Classified =>
        /\ row.SAP_SOH_MB5B <= 0 =>
              expRes = [Expectation |-> "N/A", Summary |-> <<NoStockLine>>]
        /\ row.SAP_SOH_MB5B > 0 => expRes.Expectation # "N/A"

\* a classified row without stock on which the mismatch, receipt, loss and
\* count rules would all have fired
C1_Witness ==
    /\ Classified
    /\ row.SAP_SOH_MB5B <= 0
    /\ Abs(row.Delta_SAP_minus_Expected) > SmallDelta
    /\ row.Loss702_Sum < 0
    /\ row.Days_Since_LastCount = NaN
    /\ row.Days_Since_LastReceipt = NaN

\* the lines rules 2-6 append for row r, in rule order, as section 4.5 lists them
FiredLines(r, t) ==
    LET l2 == IF Abs(r.Delta_SAP_minus_Expected) <= t THEN <<MatchLine>>
              ELSE <<DiffersLine(r.Delta_SAP_minus_Expected)>>
        l3 == IF r.Days_Since_LastReceipt # NaN
                 /\ r.Days_Since_LastReceipt <= RecentDays * SecondsPerDay
              THEN <<RecentReceiptLine>>
              ELSE IF r.Days_Since_LastReceipt = NaN
                      \/ r.Days_Since_LastReceipt > StaleReceiptDays * SecondsPerDay
              THEN <<NoReceiptLine>>
              ELSE <<>>
        l4 == IF r.Days_Since_LastSale # NaN
                 /\ r.Days_Since_LastSale <= RecentDays * SecondsPerDay
              THEN <<RecentSalesLine>> ELSE <<>>
        l5 == IF r.Loss702_Sum < 0 THEN <<LossLine(r.Loss702_Sum)>> ELSE <<>>
        l6 == IF r.Days_Since_LastCount = NaN THEN <<NoCountLine>>
              ELSE IF r.Days_Since_LastCount > OldCountDays * SecondsPerDay
              THEN <<OldCountLine>>
              ELSE <<>>
    IN l2 \o l3 \o l4 \o l5 \o l6

\* the tier of row r over the ordinals LOW = 0 < MEDIUM = 1 < HIGH = 2, every
\* fired rule applied
FiredTier(r, t) ==
    LET fired == {l.rule : l \in {FiredLines(r, t)[i] : i \in 1..Len(FiredLines(r, t))}}
        t2 == IF MatchLine.rule \in fired THEN 2
              ELSE IF Abs(r.Delta_SAP_minus_Expected) <= SmallDelta THEN 1 ELSE 0
        t3 == IF RecentReceiptLine.rule \in fired /\ t2 = 1 THEN 2
              ELSE IF NoReceiptLine.rule \in fired /\ t2 = 2 THEN 1
              ELSE t2
        t5 == IF LossLine(0).rule \in fired /\ t3 > 0 THEN t3 - 1 ELSE t3
        t6 == IF (NoCountLine.rule \in fired \/ OldCountLine.rule \in fired) /\ t5 = 2
              THEN 1 ELSE t5
    IN t6

\* C2: for a row with reported quantity > 0 the rationale is exactly the first
\* min(3, n) of the n lines rules 2-6 appended, in rule order; a fourth or fifth
\* line never appears; the tier reflects every rule that fired, cut or not.
C2_RationaleFirstThree ==
    (Classified /\ row.SAP_SOH_MB5B > 0) =>
        LET fired == FiredLines(row, tol)
        IN /\ expRes.Summary = SubSeq(fired, 1, IF Len(fired) < 3 THEN Len(fired) ELSE 3)
           /\ Len(expRes.Summary) <= 3
           /\ TierRank(expRes.Expectation) = FiredTier(row, tol)

\* five lines fired, the loss and count lines are cut: a match promoted to
\* HIGH, and the loss rule behind the cut still brought the tier to MEDIUM
C2_Witness ==
    /\ Classified
    /\ row.SAP_SOH_MB5B > 0
    /\ Len(FiredLines(row, tol)) = 5
    /\ Len(expRes.Summary) = 3
    /\ expRes.Summary[1] = MatchLine
    /\ expRes.Summary[2] = RecentReceiptLine
    /\ expRes.Expectation = "MEDIUM"

\* the ordinal of a tier of the machine: LOW = 0 < MEDIUM = 1 < HIGH = 2
TierOrd(e) == CASE e = "LOW" -> 0 [] e = "MEDIUM" -> 1 [] e = "HIGH" -> 2

\* C11: for a row with reported quantity > 0 the tier starts at MEDIUM and
\* each of rules 2, 3, 5 and 6 moves it by at most one ordinal step (rule 4
\* by none); after rule 2 the only upward step is MEDIUM to HIGH by the
\* recent-receipt branch, so a LOW tier is never raised; the receipt and count
\* rules never lower a tier below MEDIUM; and the final tier is LOW only if
\* rule 2 set LOW (|delta| > tolerance and |delta| > 5) or the loss sum is < 0.
C11_TierMachine ==
    (Classified /\ row.SAP_SOH_MB5B > 0) =>
        LET tr == TierTrace(row, tol)
            o == [i \in 1..6 |-> TierOrd(tr[i])]
            delta == row.Delta_SAP_minus_Expected
            dRec == row.Days_Since_LastReceipt
        IN /\ tr[1] = "MEDIUM"
           /\ \A i \in 1..5 : o[i + 1] - o[i] \in {-1, 0, 1}
           /\ o[4] = o[3]
           /\ \A i \in 2..5 :
                 o[i + 1] > o[i] =>
                    /\ i = 2
                    /\ tr[2] = "MEDIUM" /\ tr[3] = "HIGH"
                    /\ dRec # NaN /\ dRec <= RecentDays * SecondsPerDay
           /\ \A i \in 2..5 : tr[i] = "LOW" => tr[i + 1] = "LOW"
           /\ tr[3] = "LOW" => tr[2] = "LOW"
           /\ tr[6] = "LOW" => tr[5] = "LOW"
           /\ expRes.Expectation = tr[6]
           /\ expRes.Expectation = "LOW" =>
                 \/ tr[2] = "LOW" /\ Abs(delta) > tol /\ Abs(delta) > SmallDelta
                 \/ row.Loss702_Sum < 0

\* a matching row promoted to HIGH by rule 2, lowered to MEDIUM by the stale
\* receipt, to LOW by the loss rule, and left LOW by the count rule
C11_Witness ==
    /\ Classified
    /\ row.SAP_SOH_MB5B > 0
    /\ TierTrace(row, tol) = <<"MEDIUM", "HIGH", "MEDIUM", "MEDIUM", "LOW", "LOW">>
    /\ row.Days_Since_LastCount = NaN
    /\ expRes.Expectation = "LOW"

----------------------------------------------------------------------------
(* Claims about makeKey *)

\* C9: makeKey is injective over the triples the Normalizer can output:
\* equal keys imply equal plant, material and storage location.
C9_KeyInjective ==
    kpc = "keyed" =>
        \A t \in NormTriples :
            makeKey(t[1], t[2], t[3]) = key => t = NormTriple(cells, pads)

----------------------------------------------------------------------------
(* Claims about the Transaction Cleaner and the replay *)

\* the column names of a decoded log, trimmed
Columns(log) == UNION {{Trim(h) : h \in DOMAIN log[i]} : i \in 1..Len(log)}

RequiredSet == {MB51_REQUIRED[i] : i \in 1..Len(MB51_REQUIRED)}

SeqToSet(q) == {q[i] : i \in 1..Len(q)}

\* C6: when a required column is absent from the log (names compared after
\* trimming) cleaning fails, the error names exactly the missing required
\* columns and no Movement Record is produced; when none is missing cleaning
\* succeeds with one record per row, whatever the cells hold.
C6_SchemaCheck ==
    cleaned # Pending =>
        LET miss == RequiredSet \ Columns(docLog)
        IN IF miss # {}
           THEN /\ cleaned.error = "MB51 missing columns"
                /\ SeqToSet(cleaned.missing) = miss
                /\ Len(cleaned.missing) = Cardinality(miss)
                /\ cleaned.out = <<>>
           ELSE /\ cleaned.error = ""
                /\ Len(cleaned.out) = Len(docLog)

\* a log with padded headers that lacks two of the nine columns was rejected
C6_Witness ==
    /\ cleaned.error = "MB51 missing columns"
    /\ docLog # <<>>
    /\ \E h \in DOMAIN docLog[1] : h # Trim(h)
    /\ Cardinality(RequiredSet \ Columns(docLog)) = 2
    /\ Len(cleaned.missing) = 2

\* the Movement Records of the log in original row order
LogRecords == CleanRows(docLog, 1, cfg.matPad, cfg.slocPad)

\* the rows of recs that are candidates of a category for key k
Candidates(recs, k, mvts) ==
    {i \in 1..Len(recs) :
        /\ recs[i].Key = k
        /\ recs[i].Movement_Type \in mvts
        /\ recs[i].Post_DateTime # NullDate}

\* the candidates with the maximum timestamp
Latest(recs, k, mvts) ==
    LET c == Candidates(recs, k, mvts)
    IN {i \in c : \A j \in c : recs[j].Post_DateTime <= recs[i].Post_DateTime}

EventOf(r) ==
    [DT |-> r.Post_DateTime, Qty |-> r.Qty, MvT |-> r.Movement_Type,
     Txt |-> r.Movement_Type_Text]

LastEventRight(recs, le, mvts) ==
    \A k \in {recs[i].Key : i \in 1..Len(recs)} \cup DOMAIN le :
        LET latest == Latest(recs, k, mvts)
        IN IF latest = {}
           THEN k \notin DOMAIN le
           ELSE /\ k \in DOMAIN le
                /\ le[k] = EventOf(recs[CHOOSE i \in latest : \A j \in latest : i <= j])

\* C8: over the output of cleanMb51, the last event of a key and category is
\* the record with that key, a code of the category and a non-null timestamp
\* whose timestamp is the maximum; among several at the maximum, the first in
\* original log row order; a key without such a record is absent.
C8_LastEventFirstLatest ==
    facts.done =>
        LET recs == LogRecords
        IN /\ LastEventRight(recs, facts.lastCnt, COUNT_MVTS)
           /\ LastEventRight(recs, facts.lastSale, SALES_MVTS)
           /\ LastEventRight(recs, facts.lastRec, RECEIPT_MVTS)

\* two count events of one key tie at the maximum timestamp, and a row that
\* follows them in the log is an earlier count event of that key
C8_Witness ==
    /\ facts.done
    /\ LET recs == LogRecords
       IN \E k \in DOMAIN facts.lastCnt :
             LET latest == Latest(recs, k, COUNT_MVTS)
             IN /\ Cardinality(latest) >= 2
                /\ \E j \in Candidates(recs, k, COUNT_MVTS) \ latest :
                      \A i \in latest : j > i

----------------------------------------------------------------------------
(* Claims about the Snapshot Block Parser *)

\* the index in blocks of the first block with key k
FirstWithKey(blocks, k) ==
    CHOOSE i \in 1..Len(blocks) :
        blocks[i].Key = k /\ \A j \in 1..Len(blocks) : blocks[j].Key = k => i <= j

\* C5: the returned Snapshot Records have pairwise distinct keys, each equals
\* the data of the first block in block order that produced its key, the kept
\* records are in block order, and later duplicates are dropped without error.
C5_DedupKeepsFirst ==
    (parsed # Pending /\ PlantRows(docGrid) # {}) =>
        LET all == AllBlocks(docGrid, cfg.matPad, cfg.slocPad)
            out == parsed.out
        IN /\ parsed.error = ""
           /\ \A i, j \in 1..Len(out) : out[i].Key = out[j].Key => i = j
           /\ {out[i].Key : i \in 1..Len(out)} = {all[i].Key : i \in 1..Len(all)}
           /\ \A i \in 1..Len(out) : out[i] = all[FirstWithKey(all, out[i].Key)]
           /\ \A i, j \in 1..Len(out) :
                 i < j => FirstWithKey(all, out[i].Key) < FirstWithKey(all, out[j].Key)

\* three blocks, the third repeating the key of the first with another
\* description and quantity: two records are kept
C5_Witness ==
    /\ parsed.error = ""
    /\ Len(parsed.out) = 2
    /\ LET all == AllBlocks(docGrid, cfg.matPad, cfg.slocPad)
       IN /\ Len(all) = 3
          /\ all[1].Key = all[3].Key
          /\ all[1].Material_Description # all[3].Material_Description
          /\ all[1].SAP_SOH_MB5B # all[3].SAP_SOH_MB5B
          /\ parsed.out[1] = all[1]

----------------------------------------------------------------------------
(* Claims about the join and the sort *)

KeysOf(q) == {q[i].Key : i \in 1..Len(q)}

\* C3: the result set holds exactly one Reconciled Row for each Snapshot Record
\* key and no row of another key; a key that occurs only in the movement log
\* never appears, and the result is the one the log without such keys gives.
C3_OneRowPerSnapshotKey ==
    joined.done =>
        /\ Len(joined.rows) = Len(parsed.out)
        /\ \A i \in 1..Len(parsed.out) :
              Cardinality({j \in 1..Len(joined.rows) :
                              joined.rows[j].Key = parsed.out[i].Key}) = 1
        /\ KeysOf(joined.rows) = KeysOf(parsed.out)
        /\ \A k \in KeysOf(cleaned.out) \ KeysOf(parsed.out) : k \notin KeysOf(joined.rows)
        /\ LET shared == SelectSeq(cleaned.out, LAMBDA r : r.Key \in KeysOf(parsed.out))
           IN joined.rows = Reconcile(shared, parsed.out, cfg.tol, cfg.now)

\* a run whose log has a key the snapshot lacks and whose snapshot has a key
\* the log lacks, next to a key of both
C3_Witness ==
    /\ joined.done
    /\ KeysOf(cleaned.out) \ KeysOf(parsed.out) # {}
    /\ KeysOf(parsed.out) \ KeysOf(cleaned.out) # {}
    /\ joined.overlap = 1
    /\ Len(joined.rows) = 3

\* the position of key k in the snapshot block order
BlockOrder(k) == FirstWithKey(parsed.out, k)

\* C4: every row with reported quantity > 0 precedes every row with reported
\* quantity <= 0; within each group tiers ascend LOW < MEDIUM < HIGH < N/A;
\* within a tier reported quantities descend; rows equal on all three keep
\* their snapshot block order.
C4_SortOrder ==
    joined.done =>
        \A i, j \in 1..Len(joined.rows) :
            i < j =>
                LET a == joined.rows[i]
                    b == joined.rows[j]
                    ra == TierRank(a.Expectation)
                    rb == TierRank(b.Expectation)
                IN /\ ~(a.SAP_SOH_MB5B <= 0 /\ b.SAP_SOH_MB5B > 0)
                   /\ ((a.SAP_SOH_MB5B > 0) = (b.SAP_SOH_MB5B > 0)) =>
                         /\ ra <= rb
                         /\ ra = rb => a.SAP_SOH_MB5B >= b.SAP_SOH_MB5B
                         /\ (ra = rb /\ a.SAP_SOH_MB5B = b.SAP_SOH_MB5B) =>
                               BlockOrder(a.Key) < BlockOrder(b.Key)

\* a result of three rows that the sort reordered: a HIGH row that led the
\* snapshot comes after a row of a lower tier
C4_Witness ==
    /\ joined.done
    /\ Len(joined.rows) = 3
    /\ joined.rows[1].Key # parsed.out[1].Key
    /\ \E i, j \in 1..3 :
          /\ i < j
          /\ joined.rows[j].Expectation = "HIGH"
          /\ joined.rows[i].Expectation \in {"LOW", "MEDIUM"}
          /\ BlockOrder(joined.rows[j].Key) < BlockOrder(joined.rows[i].Key)


----------------------------------------------------------------------------
(* Claims about the runs of the page *)

\* what the page shows of a result set: resultRows, the table, the key
\* selector, and the sheet exportExcel writes from resultRows
Surfaced(rs) ==
    /\ resultRows = rs
    /\ tableData = rs
    /\ keyOptions = KeyOptions(rs)
    /\ ExportRows(resultRows) = ExportRows(rs)

\* C7: after a run ends in an error the observable result state holds no
\* rows, neither of the failed run nor of an earlier one; after a run ends in
\* success it is exactly that run's result set.
C7_RunAtomicity ==
    /\ ended.kind = "error" => Surfaced(<<>>)
    /\ ended.kind = "ok" => Surfaced(ended.rows)

\* C10: events that fire while a run is in flight cannot change which
\* documents the run processes: the snapshot file a run hands to the decoder
\* is the one that was selected when Run was clicked, and no run is suspended
\* after cleaning has run.
C10_RunUninterrupted ==
    \A r \in 1..MaxRuns :
        /\ runs[r].pc \in {"await5b", "ok"} => runs[r].f5b = runs[r].clicked
        /\ runs[r].pc = "await5b" => runs[r].mb51 = <<>>


----------------------------------------------------------------------------
(* Claims about the storage-location inference *)

\* the rows of the first block of the grid
FirstBlock ==
    LET P == PlantRows(docGrid)
        a == CHOOSE x \in P : \A y \in P : x <= y
        later == {x \in P : x > a}
    IN SubSeq(docGrid, a, IF later = {} THEN Len(docGrid)
                          ELSE (CHOOSE x \in later : \A y \in later : x <= y) - 1)

\* the rows of a block whose second and third cells read Loca and MvT
LocaHeaders(block) ==
    {r \in 1..Len(block) :
        /\ Len(block[r]) >= 3
        /\ Trim(String(block[r][2])) = <<"Loca">>
        /\ Trim(String(block[r][3])) = <<"MvT">>}

\* the storage location inferred from the rows of a block that lie at least
\* skip rows below its first header row
LocationFrom(block, skip) ==
    IF LocaHeaders(block) = {} THEN <<>>
    ELSE LET h == CHOOSE x \in LocaHeaders(block) : \A y \in LocaHeaders(block) : x <= y
             cand == {normSloc(block[q][2], cfg.slocPad) :
                         q \in {j \in (h + skip)..Len(block) :
                                   /\ Len(block[j]) >= 2
                                   /\ Trim(String(block[j][2])) # <<>>}}
         IN IF Cardinality(cand) = 1 THEN CHOOSE x \in cand : TRUE
            ELSE IF Cardinality(cand) > 1 THEN <<"MULTI">>
            ELSE <<>>

DetailParsed == parsed # Pending /\ parsed.error = "" /\ parsed.out # <<>>

\* C12 (as the code has it): the candidate set of a block with a Loca/MvT
\* header row (cells compared after trimming) is the set of distinct
\* normalized non-empty second-cell values of the rows from the second row
\* after the header row up to the end of the block, the row directly under the
\* header being skipped; the storage location is that value when the set has
\* one element, "MULTI" when it has more, and empty when it has none or when
\* the block has no header row.
C12_SlocFromSecondRow ==
    DetailParsed => parsed.out[1].Storage_Location = LocationFrom(FirstBlock, 2)

\* C12 (as stated): the candidate set is taken from every row after the
\* header row up to the end of the block.
C12_SlocFromEveryRow ==
    DetailParsed => parsed.out[1].Storage_Location = LocationFrom(FirstBlock, 1)

\* a block whose header row is directly followed by a row with location 1
\* and then by a row with location 2: the record carries location 2 alone
C12_Witness ==
    /\ DetailParsed
    /\ LET b == FirstBlock
           h == CHOOSE x \in LocaHeaders(b) : \A y \in LocaHeaders(b) : x <= y
       IN /\ LocaHeaders(b) # {}
          /\ Len(b) = h + 2
          /\ Len(b[h + 1]) >= 2 /\ b[h + 1][2] = Str(<<"1">>)
          /\ Len(b[h + 2]) >= 2 /\ b[h + 2][2] = Str(<<"2">>)
          /\ parsed.out[1].Storage_Location = zfill(<<"2">>, cfg.slocPad)

====
